---- MODULE Spec2Model ----
(***************************************************************************)
(* State-machine model of the GameModFHEPlatform contract                  *)
(* (src/unnamed/part_001).  Every external function is one action.  A      *)
(* call is evaluated on a transaction record x = [s, ev, err]: s is the    *)
(* contract storage as the call has written it so far, ev the events it    *)
(* has emitted, err the error it reverted with (OK when it did not).       *)
(* Modifiers and function bodies are operators over that record, composed  *)
(* in the order the source lists them.  A reverted call commits nothing.   *)
(*                                                                         *)
(* submitMod calls closeBatch and openBatch by their bare names: the calls *)
(* are internal calls, so their modifiers run against the msg.sender of    *)
(* the submitMod call.                                                     *)
(*                                                                         *)
(* The FHE library, the decryption oracle and keccak256 are outside the    *)
(* repository.  A ciphertext handle is the term that produced it (the      *)
(* sequence of the encrypted leaves added so far), so that two handles are *)
(* equal exactly when they were computed the same way; a hash is the       *)
(* tuple of what was hashed.                                               *)
(***************************************************************************)
EXTENDS Integers, Sequences, FiniteSets, TLC

\* ------------------------------------------------------------------ bounds
\* Batch ids the model opens: 1..MaxBatchId.
MaxBatchId == 2
\* Decryption requests recorded under Spec.
MaxRequests == 1
\* Decryption requests recorded under SpecPair, which explores fewer functions.
MaxPairRequests == MaxRequests + 1
\* Width of uint256, scaled down; arithmetic beyond MaxUint panics.
UintBits == 7
MaxUint == 2^UintBits - 1
\* Width of euint32, scaled down; FHE.add wraps modulo EuintMod.
EuintBits == 3
EuintMod == 2^EuintBits

\* The threshold of the auto-rollover in submitMod.
BatchCapacity == 10
\* cooldownSeconds as the constructor sets it.
InitialCooldown == 30

Deployer == "owner"
Addresses == {"owner", "alice"}
NoAddr == "none"
\* block.timestamp takes these values, in increasing order.
Times == {0, 10, 31}
\* Arguments of setCooldown.
CooldownValues == {InitialCooldown, MaxUint}
\* Submissions the run of SubmitModRun puts into batch 1.
Prefilled == BatchCapacity - 2
BatchIds == 0..MaxBatchId
RequestIds == 0..MaxPairRequests

OK == "ok"

\* --------------------------------------------------- FHE library, hashing
\* euint32.wrap(0): the handle of a storage slot never written.
Uninitialized == <<>>
\* Encrypted scores a caller can pass: the null handle and handles of 1 and 2.
ScoreHandles == {Uninitialized, <<1>>, <<2>>}

FHE_asEuint32(v) == <<v % EuintMod>>
FHE_add(a, b) == a \o b
FHE_isInitialized(h) == h # Uninitialized
FHE_toBytes32(h) == h

RECURSIVE SumSeq(_)
SumSeq(h) == IF h = <<>> THEN 0 ELSE Head(h) + SumSeq(Tail(h))
\* The plaintext under a handle: what the oracle decrypts it to.
Decrypt(h) == SumSeq(h) % EuintMod

ZeroHash == [cts |-> <<>>, addr |-> "zero"]
\* A digest that does not depend on the handles hashed.
_hashCiphertexts_blind(cts) == [cts |-> <<>>, addr |-> "this"]
\* A digest that is zero for the null handle.
_hashCiphertexts_zeroOnNull(cts) ==
    IF cts = <<Uninitialized>> THEN ZeroHash ELSE [cts |-> cts, addr |-> "this"]

_hashCiphertexts(cts) == [cts |-> cts, addr |-> "this"]

\* ------------------------------------------------------------------- state
VARIABLES
    owner, paused, cooldownSeconds, currentBatchId, modelVersion,
    isProvider, lastSubmissionAt, lastDecryptionRequestAt,
    decryptionContexts, batches,
    requestCounter,   \* the oracle's next request id
    oracleRequests,   \* the oracle's record: request id -> handles to decrypt
    now,              \* block.timestamp
    submittedAfter,   \* history: the requests whose batch took a submission since
    opened,           \* history: the batch ids a BatchOpened was emitted for
    submitted         \* history: per batch, the handles of its accepted submissions

storageVars == <<owner, paused, cooldownSeconds, currentBatchId, modelVersion,
                 isProvider, lastSubmissionAt, lastDecryptionRequestAt,
                 decryptionContexts, batches, requestCounter, oracleRequests>>
vars == <<storageVars, now, submittedAfter, opened, submitted>>

Storage ==
    [owner |-> owner, paused |-> paused, cooldownSeconds |-> cooldownSeconds,
     currentBatchId |-> currentBatchId, modelVersion |-> modelVersion,
     isProvider |-> isProvider, lastSubmissionAt |-> lastSubmissionAt,
     lastDecryptionRequestAt |-> lastDecryptionRequestAt,
     decryptionContexts |-> decryptionContexts, batches |-> batches,
     requestCounter |-> requestCounter, oracleRequests |-> oracleRequests]

DefaultBatch == [isActive |-> FALSE, submissionCount |-> 0,
                 encryptedAggregate |-> Uninitialized]
DefaultContext == [batchId |-> 0, stateHash |-> ZeroHash, processed |-> FALSE,
                   requester |-> NoAddr]

Event(name, who, id, id2, val) ==
    [name |-> name, who |-> who, id |-> id, id2 |-> id2, val |-> val]

\* ------------------------------------------------------- transaction record
Begin(s) == [s |-> s, ev |-> <<>>, err |-> OK]
Revert(x, e) == [x EXCEPT !.err = e]
Emit(x, e) == [x EXCEPT !.ev = Append(@, e)]

\* --------------------------------------------------------------- modifiers
\* onlyOwner that admits every caller.
onlyOwner_open(x, sender) == x

\* onlyOwner that also admits the providers.
onlyOwner_orProvider(x, sender) ==
    IF x.err # OK THEN x
    ELSE IF sender # x.s.owner /\ ~x.s.isProvider[sender]
         THEN Revert(x, "NotOwner")
    ELSE x

onlyOwner(x, sender) ==
    IF x.err # OK THEN x
    ELSE IF sender # x.s.owner THEN Revert(x, "NotOwner") ELSE x

\* onlyProvider that admits every caller.
onlyProvider_open(x, sender) == x

onlyProvider(x, sender) ==
    IF x.err # OK THEN x
    ELSE IF ~x.s.isProvider[sender] THEN Revert(x, "NotProvider") ELSE x

\* whenNotPaused that ignores the pause flag.
whenNotPaused_ignored(x) == x

whenNotPaused(x) ==
    IF x.err # OK THEN x
    ELSE IF x.s.paused THEN Revert(x, "Paused") ELSE x

\* rateLimited that stamps both kinds of action.
rateLimited_bothKinds(x, caller, lastAction, t) ==
    IF x.err # OK THEN x
    ELSE IF x.s[lastAction][caller] + x.s.cooldownSeconds > MaxUint
         THEN Revert(x, "Panic")
    ELSE IF t < x.s[lastAction][caller] + x.s.cooldownSeconds
         THEN Revert(x, "RateLimited")
    ELSE [x EXCEPT !.s.lastSubmissionAt[caller] = t,
                   !.s.lastDecryptionRequestAt[caller] = t]

\* lastAction names the mapping: "lastSubmissionAt" or "lastDecryptionRequestAt".
rateLimited(x, caller, lastAction, t) ==
    IF x.err # OK THEN x
    ELSE IF x.s[lastAction][caller] + x.s.cooldownSeconds > MaxUint
         THEN Revert(x, "Panic")
    ELSE IF t < x.s[lastAction][caller] + x.s.cooldownSeconds
         THEN Revert(x, "RateLimited")
    ELSE [x EXCEPT !.s[lastAction][caller] = t]

\* batchActive that lets every batch through.
batchActive_ignored(x, batchId) == x

batchActive(x, batchId) ==
    IF x.err # OK THEN x
    ELSE IF ~x.s.batches[batchId].isActive THEN Revert(x, "BatchClosed") ELSE x

\* ---------------------------------------------------------- admin functions
\* addProvider behind the pause check.
addProvider_whenNotPaused(x, sender, provider) ==
    LET x1 == whenNotPaused(onlyOwner(x, sender))
    IN  IF x1.err # OK THEN x1
        ELSE Emit([x1 EXCEPT !.s.isProvider[provider] = TRUE],
                  Event("ProviderAdded", provider, 0, 0, 0))

addProvider(x, sender, provider) ==
    LET x1 == onlyOwner(x, sender)
    IN  IF x1.err # OK THEN x1
        ELSE Emit([x1 EXCEPT !.s.isProvider[provider] = TRUE],
                  Event("ProviderAdded", provider, 0, 0, 0))

\* removeProvider that refuses an address that is not a provider.
removeProvider_strict(x, sender, provider) ==
    LET x1 == onlyOwner(x, sender)
    IN  IF x1.err # OK THEN x1
        ELSE IF ~x1.s.isProvider[provider] THEN Revert(x1, "NotProvider")
        ELSE Emit([x1 EXCEPT !.s.isProvider[provider] = FALSE],
                  Event("ProviderRemoved", provider, 0, 0, 0))

removeProvider(x, sender, provider) ==
    LET x1 == onlyOwner(x, sender)
    IN  IF x1.err # OK THEN x1
        ELSE Emit([x1 EXCEPT !.s.isProvider[provider] = FALSE],
                  Event("ProviderRemoved", provider, 0, 0, 0))

pause(x, sender) ==
    LET x1 == onlyOwner(x, sender)
    IN  IF x1.err # OK THEN x1
        ELSE Emit([x1 EXCEPT !.s.paused = TRUE], Event("Paused", NoAddr, 0, 0, 0))

unpause(x, sender) ==
    LET x1 == onlyOwner(x, sender)
    IN  IF x1.err # OK THEN x1
        ELSE Emit([x1 EXCEPT !.s.paused = FALSE], Event("Unpaused", NoAddr, 0, 0, 0))

setCooldown(x, sender, newCooldown) ==
    LET x1 == onlyOwner(x, sender)
    IN  IF x1.err # OK THEN x1
        ELSE Emit([x1 EXCEPT !.s.cooldownSeconds = newCooldown],
                  Event("CooldownUpdated", NoAddr, newCooldown, 0, 0))

_openBatch(x, batchId) ==
    IF x.err # OK THEN x
    ELSE IF batchId # x.s.currentBatchId THEN Revert(x, "Invalid batch ID")
    ELSE Emit([x EXCEPT !.s.batches[batchId] =
                   [isActive |-> TRUE, submissionCount |-> 0,
                    encryptedAggregate |-> FHE_asEuint32(0)]],
              Event("BatchOpened", NoAddr, batchId, 0, 0))

\* openBatch that does not advance currentBatchId.
openBatch_sameId(x, sender) ==
    LET x1 == onlyOwner(x, sender)
    IN  _openBatch(x1, x1.s.currentBatchId)

openBatch(x, sender) ==
    LET x1 == onlyOwner(x, sender)
    IN  IF x1.err # OK THEN x1
        ELSE IF x1.s.currentBatchId + 1 > MaxUint THEN Revert(x1, "Panic")
        ELSE LET x2 == [x1 EXCEPT !.s.currentBatchId = @ + 1]
             IN  _openBatch(x2, x2.s.currentBatchId)

\* closeBatch that signals the closure and leaves the batch active.
closeBatch_leftActive(x, sender, batchId) ==
    LET x1 == batchActive(onlyOwner(x, sender), batchId)
    IN  IF x1.err # OK THEN x1
        ELSE Emit(x1, Event("BatchClosed", NoAddr, batchId, 0, 0))

closeBatch(x, sender, batchId) ==
    LET x1 == batchActive(onlyOwner(x, sender), batchId)
    IN  IF x1.err # OK THEN x1
        ELSE Emit([x1 EXCEPT !.s.batches[batchId].isActive = FALSE],
                  Event("BatchClosed", NoAddr, batchId, 0, 0))

\* _requireInitialized that lets the null handle through.
_requireInitialized_lenient(x, h) == x

\* ------------------------------------------------------------- submission
_requireInitialized(x, h) ==
    IF x.err # OK THEN x
    ELSE IF ~FHE_isInitialized(h) THEN Revert(x, "Uninitialized") ELSE x

\* A submission that replaces the aggregate by the score.
accumulate_overwriting(x, sender, batchId, encryptedScore) ==
    IF x.err # OK THEN x
    ELSE LET batch == x.s.batches[batchId]
         IN  Emit([x EXCEPT !.s.batches[batchId] =
                      [isActive |-> batch.isActive,
                       submissionCount |-> batch.submissionCount + 1,
                       encryptedAggregate |-> encryptedScore]],
                  Event("ModSubmission", sender, batchId, 0, 0))

\* Lines 158-166: fold the score into the aggregate, count it, signal it.
accumulate(x, sender, batchId, encryptedScore) ==
    IF x.err # OK THEN x
    ELSE LET batch == x.s.batches[batchId]
         IN  Emit([x EXCEPT !.s.batches[batchId] =
                      [isActive |-> batch.isActive,
                       submissionCount |-> batch.submissionCount + 1,
                       encryptedAggregate |->
                           FHE_add(batch.encryptedAggregate, encryptedScore)]],
                  Event("ModSubmission", sender, batchId, 0, 0))

\* submitMod without the rollover of a full batch.
rollover_skipped(x, sender, batchId) == x

\* Lines 168-173: a full batch is committed, closed and followed by the next.
rollover(x, sender, batchId) ==
    IF x.err # OK THEN x
    ELSE IF x.s.batches[batchId].submissionCount >= BatchCapacity
         THEN LET x1 == Emit(x, Event("BatchAggregateCommitted", NoAddr, batchId, 0, 0))
                  x2 == closeBatch(x1, sender, batchId)
              IN  openBatch(x2, sender)
    ELSE x

submitMod(x, sender, t, batchId, encryptedScore) ==
    LET x1 == onlyProvider(x, sender)
        x2 == whenNotPaused(x1)
        x3 == batchActive(x2, batchId)
        x4 == rateLimited(x3, sender, "lastSubmissionAt", t)
        x5 == _requireInitialized(x4, encryptedScore)
        x6 == accumulate(x5, sender, batchId, encryptedScore)
    IN  rollover(x6, sender, batchId)

\* ------------------------------------------------------------- decryption
\* The oracle hands out its counter as the request id and keeps the handles.
FHE_requestDecryption(x, cts) ==
    [x EXCEPT !.s.oracleRequests[x.s.requestCounter] = cts,
              !.s.requestCounter = @ + 1]

\* A proof is the signature of the handles and the cleartexts, or a forgery.
FHE_checkSignatures(x, requestId, cleartexts, proof) ==
    IF x.err # OK THEN x
    ELSE IF /\ proof.signed
            /\ proof.cts = x.s.oracleRequests[requestId]
            /\ proof.cleartexts = cleartexts
         THEN x
    ELSE Revert(x, "InvalidSignatures")

\* A request that also closes the batch it asks about.
request_closing(x, sender, batchId) ==
    IF x.err # OK THEN x
    ELSE LET batch == x.s.batches[batchId]
         IN  IF ~batch.isActive THEN Revert(x, "BatchClosed")
             ELSE LET cts == <<FHE_toBytes32(batch.encryptedAggregate)>>
                      stateHash == _hashCiphertexts(cts)
                      requestId == x.s.requestCounter
                      x1 == FHE_requestDecryption(x, cts)
                      x2 == [x1 EXCEPT !.s.decryptionContexts[requestId] =
                                [batchId |-> batchId, stateHash |-> stateHash,
                                 processed |-> FALSE, requester |-> sender],
                                       !.s.batches[batchId].isActive = FALSE]
                  IN  Emit(x2, Event("DecryptionRequested", NoAddr,
                                     requestId, batchId, 0))

\* The body of requestBatchDecryption without its check of the batch.
request_unchecked(x, sender, batchId) ==
    IF x.err # OK THEN x
    ELSE LET batch == x.s.batches[batchId]
             cts == <<FHE_toBytes32(batch.encryptedAggregate)>>
             stateHash == _hashCiphertexts(cts)
             requestId == x.s.requestCounter
             x1 == FHE_requestDecryption(x, cts)
             x2 == [x1 EXCEPT !.s.decryptionContexts[requestId] =
                       [batchId |-> batchId, stateHash |-> stateHash,
                        processed |-> FALSE, requester |-> sender]]
         IN  Emit(x2, Event("DecryptionRequested", NoAddr, requestId, batchId, 0))

\* Lines 183-204: the body of requestBatchDecryption.
request(x, sender, batchId) ==
    IF x.err # OK THEN x
    ELSE LET batch == x.s.batches[batchId]
         IN  IF ~batch.isActive THEN Revert(x, "BatchClosed")
             ELSE LET cts == <<FHE_toBytes32(batch.encryptedAggregate)>>
                      stateHash == _hashCiphertexts(cts)
                      requestId == x.s.requestCounter
                      x1 == FHE_requestDecryption(x, cts)
                      x2 == [x1 EXCEPT !.s.decryptionContexts[requestId] =
                                [batchId |-> batchId, stateHash |-> stateHash,
                                 processed |-> FALSE, requester |-> sender]]
                  IN  Emit(x2, Event("DecryptionRequested", NoAddr,
                                     requestId, batchId, 0))

requestBatchDecryption(x, sender, t, batchId) ==
    LET x1 == onlyProvider(x, sender)
        x2 == whenNotPaused(x1)
        x3 == rateLimited(x2, sender, "lastDecryptionRequestAt", t)
    IN  request(x3, sender, batchId)

\* The callback without its replay guard.
checkReplay_skipped(x, requestId) == x

\* Lines 215-216: a processed request is a replay.
checkReplay(x, requestId) ==
    IF x.err # OK THEN x
    ELSE IF x.s.decryptionContexts[requestId].processed
         THEN Revert(x, "ReplayAttempt")
    ELSE x

\* The callback without its digest check.
checkState_skipped(x, requestId) == x

\* The digest check behind a pause check.
checkState_whenNotPaused(x, requestId) ==
    LET x1 == whenNotPaused(x)
    IN  IF x1.err # OK THEN x1
        ELSE LET context == x1.s.decryptionContexts[requestId]
                 batch == x1.s.batches[context.batchId]
                 cts == <<FHE_toBytes32(batch.encryptedAggregate)>>
                 currentStateHash == _hashCiphertexts(cts)
             IN  IF currentStateHash # context.stateHash
                 THEN Revert(x1, "InvalidState")
                 ELSE x1

\* Lines 218-225: the batch's aggregate must still hash to the stored digest.
checkState(x, requestId) ==
    IF x.err # OK THEN x
    ELSE LET context == x.s.decryptionContexts[requestId]
             batch == x.s.batches[context.batchId]
             cts == <<FHE_toBytes32(batch.encryptedAggregate)>>
             currentStateHash == _hashCiphertexts(cts)
         IN  IF currentStateHash # context.stateHash
             THEN Revert(x, "InvalidState")
             ELSE x

\* The callback marking every request of the batch at once.
complete_markingBatch(x, requestId, cleartexts) ==
    IF x.err # OK THEN x
    ELSE LET context == x.s.decryptionContexts[requestId]
         IN  Emit([x EXCEPT !.s.decryptionContexts =
                      [r \in RequestIds |->
                          IF /\ @[r].batchId = context.batchId
                             /\ @[r].stateHash # ZeroHash
                          THEN [@[r] EXCEPT !.processed = TRUE]
                          ELSE @[r]]],
                  Event("DecryptionComplete", NoAddr, requestId,
                        context.batchId, cleartexts))

\* The callback deleting the context once it has signalled the result.
complete_deleting(x, requestId, cleartexts) ==
    IF x.err # OK THEN x
    ELSE LET context == x.s.decryptionContexts[requestId]
         IN  Emit([x EXCEPT !.s.decryptionContexts[requestId] = DefaultContext],
                  Event("DecryptionComplete", NoAddr, requestId,
                        context.batchId, cleartexts))

\* Lines 230-235: decode the aggregate, mark the request, signal it.
complete(x, requestId, cleartexts) ==
    IF x.err # OK THEN x
    ELSE LET context == x.s.decryptionContexts[requestId]
         IN  Emit([x EXCEPT !.s.decryptionContexts[requestId] =
                      [batchId |-> context.batchId, stateHash |-> context.stateHash,
                       processed |-> TRUE, requester |-> context.requester]],
                  Event("DecryptionComplete", NoAddr, requestId,
                        context.batchId, cleartexts))

\* The callback verifying the proof before the replay and digest checks.
onBatchDecryptionComplete_proofFirst(x, requestId, cleartexts, proof) ==
    LET x1 == FHE_checkSignatures(x, requestId, cleartexts, proof)
        x2 == checkReplay(x1, requestId)
        x3 == checkState(x2, requestId)
    IN  complete(x3, requestId, cleartexts)

onBatchDecryptionComplete(x, requestId, cleartexts, proof) ==
    LET x1 == checkReplay(x, requestId)
        x2 == checkState(x1, requestId)
        x3 == FHE_checkSignatures(x2, requestId, cleartexts, proof)
    IN  complete(x3, requestId, cleartexts)

\* ------------------------------------------------------------- constructor
BlankStorage ==
    [owner |-> NoAddr, paused |-> FALSE, cooldownSeconds |-> 0,
     currentBatchId |-> 0, modelVersion |-> 0,
     isProvider |-> [a \in Addresses |-> FALSE],
     lastSubmissionAt |-> [a \in Addresses |-> 0],
     lastDecryptionRequestAt |-> [a \in Addresses |-> 0],
     decryptionContexts |-> [r \in RequestIds |-> DefaultContext],
     batches |-> [b \in BatchIds |-> DefaultBatch],
     requestCounter |-> 1,
     oracleRequests |-> [r \in RequestIds |-> <<>>]]

constructor(sender) ==
    LET x1 == [Begin(BlankStorage) EXCEPT
                  !.s.owner = sender,
                  !.s.isProvider[sender] = TRUE,
                  !.s.cooldownSeconds = InitialCooldown,
                  !.s.modelVersion = 1,
                  !.s.currentBatchId = 1]
    IN  _openBatch(x1, x1.s.currentBatchId)

\* ---------------------------------------------------------------- actions
\* What a call leaves behind: its writes when it returned, nothing when it
\* reverted.
\* A revert that keeps the writes made before it.
Committed_partial(x) == x.s
Committed(x) == IF x.err = OK THEN x.s ELSE Storage

InBounds(s) ==
    /\ s.currentBatchId <= MaxBatchId
    /\ s.requestCounter <= MaxPairRequests + 1

Install(s) ==
    /\ owner' = s.owner
    /\ paused' = s.paused
    /\ cooldownSeconds' = s.cooldownSeconds
    /\ currentBatchId' = s.currentBatchId
    /\ modelVersion' = s.modelVersion
    /\ isProvider' = s.isProvider
    /\ lastSubmissionAt' = s.lastSubmissionAt
    /\ lastDecryptionRequestAt' = s.lastDecryptionRequestAt
    /\ decryptionContexts' = s.decryptionContexts
    /\ batches' = s.batches
    /\ requestCounter' = s.requestCounter
    /\ oracleRequests' = s.oracleRequests

\* The events a call leaves in the log: none when it reverted.
Emitted(x) == IF x.err = OK THEN x.ev ELSE <<>>

\* The batch ids opened in a log.
OpenedIn(ev) == {ev[i].id : i \in {j \in DOMAIN ev : ev[j].name = "BatchOpened"}}

Commit(x) ==
    /\ InBounds(Committed(x))
    /\ Install(Committed(x))
    /\ opened' = opened \cup OpenedIn(Emitted(x))
    /\ UNCHANGED now

\* The recorded requests against a batch.
RequestsOn(batchId) ==
    {r \in 1..(requestCounter - 1) : decryptionContexts[r].batchId = batchId}

\* The contract as deployed.
Init ==
    /\ owner = constructor(Deployer).s.owner
    /\ paused = constructor(Deployer).s.paused
    /\ cooldownSeconds = constructor(Deployer).s.cooldownSeconds
    /\ currentBatchId = constructor(Deployer).s.currentBatchId
    /\ modelVersion = constructor(Deployer).s.modelVersion
    /\ isProvider = constructor(Deployer).s.isProvider
    /\ lastSubmissionAt = constructor(Deployer).s.lastSubmissionAt
    /\ lastDecryptionRequestAt = constructor(Deployer).s.lastDecryptionRequestAt
    /\ decryptionContexts = constructor(Deployer).s.decryptionContexts
    /\ batches = constructor(Deployer).s.batches
    /\ requestCounter = constructor(Deployer).s.requestCounter
    /\ oracleRequests = constructor(Deployer).s.oracleRequests
    /\ now = 0
    /\ submittedAfter = {}
    /\ opened = OpenedIn(constructor(Deployer).ev)
    /\ submitted = [b \in BatchIds |-> <<>>]

AddProvider ==
    \E sender \in Addresses, provider \in Addresses :
        /\ Commit(addProvider(Begin(Storage), sender, provider))
        /\ UNCHANGED <<submittedAfter, submitted>>

RemoveProvider ==
    \E sender \in Addresses, provider \in Addresses :
        /\ Commit(removeProvider(Begin(Storage), sender, provider))
        /\ UNCHANGED <<submittedAfter, submitted>>

Pause ==
    \E sender \in Addresses :
        /\ Commit(pause(Begin(Storage), sender))
        /\ UNCHANGED <<submittedAfter, submitted>>

Unpause ==
    \E sender \in Addresses :
        /\ Commit(unpause(Begin(Storage), sender))
        /\ UNCHANGED <<submittedAfter, submitted>>

SetCooldown ==
    \E sender \in Addresses, newCooldown \in CooldownValues :
        /\ Commit(setCooldown(Begin(Storage), sender, newCooldown))
        /\ UNCHANGED <<submittedAfter, submitted>>

OpenBatch ==
    \E sender \in Addresses :
        /\ Commit(openBatch(Begin(Storage), sender))
        /\ UNCHANGED <<submittedAfter, submitted>>

CloseBatch ==
    \E sender \in Addresses, batchId \in BatchIds :
        /\ Commit(closeBatch(Begin(Storage), sender, batchId))
        /\ UNCHANGED <<submittedAfter, submitted>>

SubmitMod ==
    \E sender \in Addresses, batchId \in BatchIds, encryptedScore \in ScoreHandles :
        LET x == submitMod(Begin(Storage), sender, now, batchId, encryptedScore)
        IN  /\ Commit(x)
            /\ submittedAfter' = IF x.err = OK
                                  THEN submittedAfter \cup RequestsOn(batchId)
                                  ELSE submittedAfter
            /\ submitted' = IF x.err = OK
                             THEN [submitted EXCEPT
                                      ![batchId] = Append(@, encryptedScore)]
                             ELSE submitted

RequestBatchDecryption ==
    \E sender \in Addresses, batchId \in BatchIds :
        /\ requestCounter <= MaxRequests
        /\ Commit(requestBatchDecryption(Begin(Storage), sender, now, batchId))
        /\ UNCHANGED <<submittedAfter, submitted>>

\* The same call where a further request may be recorded.
RequestBatchDecryptionPair ==
    \E sender \in Addresses, batchId \in BatchIds :
        /\ Commit(requestBatchDecryption(Begin(Storage), sender, now, batchId))
        /\ UNCHANGED <<submittedAfter, submitted>>

\* The proofs a caller can present for a request: the oracle's signature of
\* the decryption of the handles it was asked for, and a forgery.
Proofs(requestId) ==
    LET cts == oracleRequests[requestId]
    IN  {[signed |-> FALSE, cts |-> cts, cleartexts |-> 0]}
        \cup (IF cts = <<>> THEN {}
              ELSE {[signed |-> TRUE, cts |-> cts, cleartexts |-> Decrypt(cts[1])]})

\* The cleartexts presented with a proof: the signed ones, and for a signature
\* also other ones.
Cleartexts(proof) ==
    IF proof.signed THEN {proof.cleartexts, (proof.cleartexts + 1) % EuintMod}
    ELSE {proof.cleartexts}

\* Anyone can call the callback.
Callers == {"oracle", "alice"}

OnBatchDecryptionComplete ==
    \E sender \in Callers, requestId \in RequestIds :
        \E proof \in Proofs(requestId) :
            \E cleartexts \in Cleartexts(proof) :
                /\ Commit(onBatchDecryptionComplete(Begin(Storage), requestId,
                                                    cleartexts, proof))
                /\ UNCHANGED <<submittedAfter, submitted>>

\* The owner's calls setCooldown(0), k times submitMod(1, <<1>>), then
\* setCooldown(30), all in one block: a batch filled up to k submissions.
RECURSIVE Submissions(_, _)
Submissions(x, k) ==
    IF k = 0 \/ x.err # OK THEN x
    ELSE Submissions(submitMod(Begin(x.s), x.s.owner, now, 1, <<1>>), k - 1)

SubmissionRun(s, k) ==
    LET x1 == setCooldown(Begin(s), s.owner, 0)
        x2 == Submissions(x1, k)
    IN  IF x2.err # OK THEN x2
        ELSE setCooldown(Begin(x2.s), s.owner, InitialCooldown)

\* The run, made right after the deployment.
SubmitModRun ==
    /\ Storage = constructor(Deployer).s
    /\ now = 0
    /\ Commit(SubmissionRun(Storage, Prefilled))
    /\ submitted' = [submitted EXCEPT ![1] = @ \o [i \in 1..Prefilled |-> <<1>>]]
    /\ UNCHANGED submittedAfter

\* Time passes between calls.
Tick ==
    /\ \E t \in Times : t > now /\ now' = t
    /\ UNCHANGED <<storageVars, submittedAfter, opened, submitted>>

Next ==
    \/ AddProvider
    \/ RemoveProvider
    \/ Pause
    \/ Unpause
    \/ SetCooldown
    \/ OpenBatch
    \/ CloseBatch
    \/ SubmitMod
    \/ SubmitModRun
    \/ RequestBatchDecryption
    \/ OnBatchDecryptionComplete
    \/ Tick

Spec == Init /\ [][Next]_vars

\* The calls around decryption alone, with room for two requests.
NextPair ==
    \/ AddProvider
    \/ Pause
    \/ Unpause
    \/ SubmitMod
    \/ RequestBatchDecryptionPair
    \/ OnBatchDecryptionComplete
    \/ Tick

SpecPair == Init /\ [][NextPair]_vars

\* ------------------------------------------------------- outcomes of calls
\* What a call made in the current state would do.
SubmitOutcome(sender, batchId, encryptedScore) ==
    submitMod(Begin(Storage), sender, now, batchId, encryptedScore)

RequestOutcome(sender, batchId) ==
    requestBatchDecryption(Begin(Storage), sender, now, batchId)

CallbackOutcome(requestId, cleartexts, proof) ==
    onBatchDecryptionComplete(Begin(Storage), requestId, cleartexts, proof)

\* A reverted call leaves the storage and the log as they were.
NoEffect(x) == Committed(x) = Storage /\ Emitted(x) = <<>>

SubmissionCooldownElapsed(a) == now >= lastSubmissionAt[a] + cooldownSeconds
DecryptionCooldownElapsed(a) == now >= lastDecryptionRequestAt[a] + cooldownSeconds

\* ------------------------------------------------------------------ claims

\* C1: the 10th accepted submission into a batch emits, in this order,
\* BatchAggregateCommitted, BatchClosed(old id) and BatchOpened(next id), leaves
\* the filled batch inactive and the next sequential batch active and empty;
\* a further submission to the filled batch fails with BatchClosed.
C1_RolloverOnTenth ==
    /\ \A sender \in Addresses, b \in BatchIds, sc \in ScoreHandles :
        LET x == SubmitOutcome(sender, b, sc)
            next == currentBatchId + 1
        IN  (/\ x.err = OK
             /\ InBounds(x.s)
             /\ x.s.batches[b].submissionCount = BatchCapacity)
            => /\ batches[b].submissionCount = BatchCapacity - 1
               /\ ~x.s.batches[b].isActive
               /\ x.s.currentBatchId = next
               /\ x.s.batches[next].isActive
               /\ x.s.batches[next].submissionCount = 0
               /\ x.ev = << Event("ModSubmission", sender, b, 0, 0),
                            Event("BatchAggregateCommitted", NoAddr, b, 0, 0),
                            Event("BatchClosed", NoAddr, b, 0, 0),
                            Event("BatchOpened", NoAddr, next, 0, 0) >>
               /\ \A s2 \in Addresses, sc2 \in ScoreHandles :
                    (x.s.isProvider[s2] /\ ~x.s.paused)
                    => submitMod(Begin(x.s), s2, now, b, sc2).err = "BatchClosed"
    /\ \A b \in BatchIds :
        batches[b].submissionCount >= BatchCapacity
        => /\ batches[b].submissionCount = BatchCapacity
           /\ ~batches[b].isActive
           /\ \A s2 \in Addresses, sc2 \in ScoreHandles :
                (isProvider[s2] /\ ~paused)
                => SubmitOutcome(s2, b, sc2).err = "BatchClosed"

C1_Witness ==
    /\ batches[1].submissionCount = BatchCapacity
    /\ ~batches[1].isActive
    /\ currentBatchId = 2
    /\ batches[2].isActive
    /\ batches[2].submissionCount = 0
    /\ \E s2 \in Addresses :
        /\ isProvider[s2] /\ ~paused
        /\ SubmitOutcome(s2, 1, <<1>>).err = "BatchClosed"

\* C2: a submitMod by an active provider, owner or not, while not paused, on
\* an active batch, with the cooldown elapsed and an initialized score handle,
\* succeeds, the submission that fills the batch included.
C2_ProviderSubmissionSucceeds ==
    \A sender \in Addresses, b \in BatchIds, sc \in ScoreHandles :
        (/\ isProvider[sender]
         /\ ~paused
         /\ batches[b].isActive
         /\ SubmissionCooldownElapsed(sender)
         /\ FHE_isInitialized(sc))
        => SubmitOutcome(sender, b, sc).err = OK

\* C3: once a submission was accepted into the batch of a recorded request
\* that is not yet processed, every callback for that request fails with
\* InvalidState, leaves processed false and emits nothing.
C3_StaleCallbackInvalidState ==
    \A r \in submittedAfter :
        ~decryptionContexts[r].processed
        => \A proof \in Proofs(r) : \A clear \in Cleartexts(proof) :
            LET x == CallbackOutcome(r, clear, proof)
            IN  /\ x.err = "InvalidState"
                /\ NoEffect(x)
                /\ ~Committed(x).decryptionContexts[r].processed

C3_Witness ==
    \E r \in submittedAfter :
        /\ ~decryptionContexts[r].processed
        /\ \E proof \in Proofs(r) :
            /\ proof.signed
            /\ CallbackOutcome(r, proof.cleartexts, proof).err = "InvalidState"

\* C4: a callback succeeds only on an unprocessed request and marks it; a
\* processed request stays processed, and every callback for it fails with
\* ReplayAttempt, whatever the digest and the proof, and emits nothing.
C4_ProcessedOnce ==
    \A r \in RequestIds : \A proof \in Proofs(r) : \A clear \in Cleartexts(proof) :
        LET x == CallbackOutcome(r, clear, proof)
        IN  /\ x.err = OK
               => /\ ~decryptionContexts[r].processed
                  /\ x.s.decryptionContexts[r].processed
            /\ decryptionContexts[r].processed
               => x.err = "ReplayAttempt" /\ NoEffect(x)

C4_ProcessedStays ==
    \A r \in RequestIds :
        decryptionContexts[r].processed => decryptionContexts'[r].processed

C4_CallbackAtMostOnce == []C4_ProcessedOnce /\ [][C4_ProcessedStays]_vars

C4_Witness ==
    \E r \in RequestIds :
        /\ decryptionContexts[r].processed
        /\ \E proof \in Proofs(r) :
            /\ proof.signed
            /\ CallbackOutcome(r, proof.cleartexts, proof).err = "ReplayAttempt"

\* C5: submitMod and requestBatchDecryption by an address that is not a
\* provider fail with NotProvider and change nothing, whatever the pause flag,
\* the batch, the timestamps and the score handle.
C5_NonProviderRejected ==
    \A sender \in Addresses :
        ~isProvider[sender]
        => \A b \in BatchIds :
            /\ \A sc \in ScoreHandles :
                LET x == SubmitOutcome(sender, b, sc)
                IN  x.err = "NotProvider" /\ NoEffect(x)
            /\ LET x == RequestOutcome(sender, b)
               IN  x.err = "NotProvider" /\ NoEffect(x)

C5_Witness ==
    /\ ~isProvider[owner]
    /\ paused
    /\ \E b \in BatchIds :
        /\ batches[b].isActive
        /\ SubmitOutcome(owner, b, <<1>>).err = "NotProvider"
        /\ RequestOutcome(owner, b).err = "NotProvider"

\* C6: submitMod reports NotProvider for a non-provider; Paused for a provider
\* while paused, also on a closed batch and inside the cooldown; BatchClosed
\* for a provider, not paused, on a batch that is not active, also inside the
\* cooldown; and RateLimited only when these three checks passed.
C6_SubmitCheckOrder ==
    \A sender \in Addresses, b \in BatchIds, sc \in ScoreHandles :
        LET e == SubmitOutcome(sender, b, sc).err
        IN  /\ ~isProvider[sender] => e = "NotProvider"
            /\ (isProvider[sender] /\ paused) => e = "Paused"
            /\ (isProvider[sender] /\ ~paused /\ ~batches[b].isActive)
               => e = "BatchClosed"
            /\ e = "RateLimited"
               => /\ isProvider[sender] /\ ~paused /\ batches[b].isActive
                  /\ ~SubmissionCooldownElapsed(sender)

C6_Witness ==
    \E sender \in Addresses, b \in BatchIds :
        /\ isProvider[sender] /\ paused
        /\ currentBatchId >= b /\ b >= 1 /\ ~batches[b].isActive
        /\ ~SubmissionCooldownElapsed(sender)
        /\ SubmitOutcome(sender, b, <<1>>).err = "Paused"

\* C7: requestBatchDecryption reports the first violated of provider
\* membership, pause, cooldown, batch active: inside the cooldown a provider
\* gets RateLimited even on a closed batch, and BatchClosed is reported only
\* when the three earlier checks passed.
C7_RequestCheckOrder ==
    \A sender \in Addresses, b \in BatchIds :
        LET e == RequestOutcome(sender, b).err
        IN  /\ ~isProvider[sender] => e = "NotProvider"
            /\ (isProvider[sender] /\ paused) => e = "Paused"
            /\ (isProvider[sender] /\ ~paused /\ ~DecryptionCooldownElapsed(sender))
               => e = "RateLimited"
            /\ e = "BatchClosed"
               => /\ isProvider[sender] /\ ~paused
                  /\ DecryptionCooldownElapsed(sender)
                  /\ ~batches[b].isActive

\* C8: a submitMod or requestBatchDecryption that fails, for whatever reason,
\* leaves every timestamp, batch and request as it was; a timestamp changes
\* only in a step that is a successful call of its function.
C8_FailureHasNoEffect ==
    \A sender \in Addresses, b \in BatchIds :
        /\ \A sc \in ScoreHandles :
            LET x == SubmitOutcome(sender, b, sc)
            IN  x.err # OK => NoEffect(x)
        /\ LET x == RequestOutcome(sender, b)
           IN  x.err # OK => NoEffect(x)

C8_TimestampWrittenBySuccess ==
    /\ lastSubmissionAt' # lastSubmissionAt
       => \E sender \in Addresses, b \in BatchIds, sc \in ScoreHandles :
            LET x == SubmitOutcome(sender, b, sc)
            IN  x.err = OK /\ Storage' = x.s
    /\ lastDecryptionRequestAt' # lastDecryptionRequestAt
       => \E sender \in Addresses, b \in BatchIds :
            LET x == RequestOutcome(sender, b)
            IN  x.err = OK /\ Storage' = x.s

C8_AllOrNothing == []C8_FailureHasNoEffect /\ [][C8_TimestampWrittenBySuccess]_vars

\* A call that fails after the cooldown check wrote the timestamp: the write
\* is in the reverted call's storage and not in the contract's.
C8_Witness ==
    \E sender \in Addresses, b \in BatchIds :
        /\ LET x == SubmitOutcome(sender, b, Uninitialized)
           IN  /\ x.err = "Uninitialized"
               /\ x.s.lastSubmissionAt[sender] # lastSubmissionAt[sender]
               /\ Committed(x) = Storage
        /\ LET x == RequestOutcome(sender, 0)
           IN  /\ x.err = "BatchClosed"
               /\ x.s.lastDecryptionRequestAt[sender] # lastDecryptionRequestAt[sender]
               /\ Committed(x) = Storage

\* C9: a call that passes the checks before the cooldown check fails with
\* RateLimited unless now >= lastAction[caller] + cooldownSeconds, and a
\* successful call leaves lastAction[caller] = now.
C9_CooldownContract ==
    \A sender \in Addresses, b \in BatchIds :
        /\ \A sc \in ScoreHandles :
            LET x == SubmitOutcome(sender, b, sc)
            IN  /\ (/\ isProvider[sender] /\ ~paused /\ batches[b].isActive
                    /\ ~SubmissionCooldownElapsed(sender))
                   => x.err = "RateLimited"
                /\ x.err = OK => x.s.lastSubmissionAt[sender] = now
        /\ LET x == RequestOutcome(sender, b)
           IN  /\ (/\ isProvider[sender] /\ ~paused
                   /\ ~DecryptionCooldownElapsed(sender))
                  => x.err = "RateLimited"
               /\ x.err = OK => x.s.lastDecryptionRequestAt[sender] = now

\* C10: with cooldownSeconds = 30 and a provider A that has not submitted, A's
\* submitMod at t = 0 is accepted and makes the count 1; after it A's submitMod
\* at t = 10 fails with RateLimited, and at t = 31 succeeds and makes the
\* count 2.
C10_CooldownExample ==
    \A A \in Addresses, b \in BatchIds :
        (/\ cooldownSeconds = InitialCooldown
         /\ isProvider[A] /\ ~paused /\ batches[b].isActive
         /\ lastSubmissionAt[A] = 0)
        => LET x == SubmitOutcome(A, b, <<1>>)
           IN  /\ (now = 0 /\ batches[b].submissionCount = 0)
                  => /\ x.err = OK
                     /\ x.s.batches[b].submissionCount = 1
               /\ (now = 10 /\ batches[b].submissionCount = 1)
                  => x.err = "RateLimited"
               /\ (now = 31 /\ batches[b].submissionCount = 1)
                  => /\ x.err = OK
                     /\ x.s.batches[b].submissionCount = 2

\* C11: requestBatchDecryption on a batch that is not active, closed by the
\* owner or by the rollover, never succeeds and records no request; for a
\* provider, not paused, with the cooldown elapsed, it fails with BatchClosed.
\* Every request that is recorded is recorded against a batch active then.
C11_ClosedBatchRejected ==
    \A sender \in Addresses, b \in BatchIds :
        ~batches[b].isActive
        => LET x == RequestOutcome(sender, b)
           IN  /\ x.err # OK
               /\ NoEffect(x)
               /\ Committed(x).requestCounter = requestCounter
               /\ (isProvider[sender] /\ ~paused /\ DecryptionCooldownElapsed(sender))
                  => x.err = "BatchClosed"

C11_RecordedOnActiveBatch ==
    requestCounter' # requestCounter
    => /\ requestCounter' = requestCounter + 1
       /\ batches[decryptionContexts'[requestCounter].batchId].isActive

C11_NoRequestOnClosedBatch ==
    []C11_ClosedBatchRejected /\ [][C11_RecordedOnActiveBatch]_vars

\* A batch closed by the rollover and one closed by the owner, both refused.
C11_Witness ==
    /\ batches[1].submissionCount = BatchCapacity /\ ~batches[1].isActive
    /\ currentBatchId = 2
    /\ batches[2].submissionCount < BatchCapacity /\ ~batches[2].isActive
    /\ \E sender \in Addresses :
        /\ isProvider[sender] /\ ~paused /\ DecryptionCooldownElapsed(sender)
        /\ RequestOutcome(sender, 1).err = "BatchClosed"
        /\ RequestOutcome(sender, 2).err = "BatchClosed"

\* The contract storage with the pause flag the other way round.
OtherPause == [Storage EXCEPT !.paused = ~paused]

\* Two calls end alike: the same error, and when they return the same events
\* and the same writes; the pause flag is compared by the caller.
SameOutcome(x, y) ==
    /\ x.err = y.err
    /\ x.err = OK
       => /\ x.ev = y.ev
          /\ [x.s EXCEPT !.paused = FALSE] = [y.s EXCEPT !.paused = FALSE]

\* The call leaves the pause flag as it found it.
KeepsPause(x, s) == x.err = OK => x.s.paused = s.paused

\* C12: while paused every submitMod and requestBatchDecryption of a provider
\* fails with Paused and changes nothing; every administrative function, for
\* every caller and argument, ends alike with the pause flag set and cleared.
C12_PauseBlocksProvidersOnly ==
    /\ \A sender \in Addresses, b \in BatchIds :
        (paused /\ isProvider[sender])
        => /\ \A sc \in ScoreHandles :
                LET x == SubmitOutcome(sender, b, sc)
                IN  x.err = "Paused" /\ NoEffect(x)
           /\ LET x == RequestOutcome(sender, b)
              IN  x.err = "Paused" /\ NoEffect(x)
    /\ \A sender \in Addresses :
        /\ \A provider \in Addresses :
            /\ LET x == addProvider(Begin(Storage), sender, provider)
                   y == addProvider(Begin(OtherPause), sender, provider)
               IN  SameOutcome(x, y) /\ KeepsPause(x, Storage) /\ KeepsPause(y, OtherPause)
            /\ LET x == removeProvider(Begin(Storage), sender, provider)
                   y == removeProvider(Begin(OtherPause), sender, provider)
               IN  SameOutcome(x, y) /\ KeepsPause(x, Storage) /\ KeepsPause(y, OtherPause)
        /\ LET x == pause(Begin(Storage), sender)
               y == pause(Begin(OtherPause), sender)
           IN  SameOutcome(x, y) /\ (x.err = OK => x.s.paused /\ y.s.paused)
        /\ LET x == unpause(Begin(Storage), sender)
               y == unpause(Begin(OtherPause), sender)
           IN  SameOutcome(x, y) /\ (x.err = OK => ~x.s.paused /\ ~y.s.paused)
        /\ \A newCooldown \in CooldownValues :
            LET x == setCooldown(Begin(Storage), sender, newCooldown)
                y == setCooldown(Begin(OtherPause), sender, newCooldown)
            IN  SameOutcome(x, y) /\ KeepsPause(x, Storage) /\ KeepsPause(y, OtherPause)
        /\ LET x == openBatch(Begin(Storage), sender)
               y == openBatch(Begin(OtherPause), sender)
           IN  SameOutcome(x, y) /\ KeepsPause(x, Storage) /\ KeepsPause(y, OtherPause)
        /\ \A b \in BatchIds :
            LET x == closeBatch(Begin(Storage), sender, b)
                y == closeBatch(Begin(OtherPause), sender, b)
            IN  SameOutcome(x, y) /\ KeepsPause(x, Storage) /\ KeepsPause(y, OtherPause)

\* Paused: the provider's calls are refused and the owner's go through.
C12_Witness ==
    /\ paused
    /\ isProvider[owner]
    /\ SubmitOutcome(owner, currentBatchId, <<1>>).err = "Paused"
    /\ RequestOutcome(owner, currentBatchId).err = "Paused"
    /\ addProvider(Begin(Storage), owner, "alice").err = OK
    /\ setCooldown(Begin(Storage), owner, MaxUint).err = OK
    /\ closeBatch(Begin(Storage), owner, currentBatchId).err = OK
    /\ unpause(Begin(Storage), owner).err = OK

\* C13: every batch has at most BatchCapacity submissions and every active
\* batch fewer; the step that brings a count to BatchCapacity leaves the batch
\* closed, and the count of a batch that is not active does not grow.
C13_CountWithinCapacity ==
    \A b \in BatchIds :
        /\ batches[b].submissionCount <= BatchCapacity
        /\ batches[b].isActive => batches[b].submissionCount < BatchCapacity

C13_FullBatchClosedAtOnce ==
    \A b \in BatchIds :
        /\ batches'[b].submissionCount > batches[b].submissionCount
           => batches[b].isActive
        /\ (/\ batches'[b].submissionCount = BatchCapacity
            /\ batches[b].submissionCount < BatchCapacity)
           => ~batches'[b].isActive

C13_CapacityBound ==
    []C13_CountWithinCapacity /\ [][C13_FullBatchClosedAtOnce]_vars

\* A batch that reached the capacity, closed, and its successor collecting.
C13_Witness ==
    \E b \in BatchIds :
        /\ batches[b].submissionCount = BatchCapacity
        /\ ~batches[b].isActive
        /\ b + 1 \in BatchIds
        /\ batches[b + 1].isActive
        /\ batches[b + 1].submissionCount < BatchCapacity
        /\ \A sender \in Addresses : SubmitOutcome(sender, b, <<1>>).err # OK

\* C14: at most one batch id is active, so that there are never two batch ids
\* on which a submitMod is accepted.
C14_AtMostOneActive ==
    /\ Cardinality({b \in BatchIds : batches[b].isActive}) <= 1
    /\ \A b1, b2 \in BatchIds :
        (\E s1, s2 \in Addresses :
            /\ SubmitOutcome(s1, b1, <<1>>).err = OK
            /\ SubmitOutcome(s2, b2, <<1>>).err = OK)
        => b1 = b2

\* C15: currentBatchId starts at 1 and never decreases; an opening, by
\* openBatch or by the rollover, opens exactly currentBatchId + 1 and makes it
\* the current id; the ids ever opened are exactly 1..currentBatchId; and an
\* opening leaves the batches opened before as they were.
C15_OpenedIsPrefix ==
    /\ currentBatchId >= 1
    /\ opened = 1..currentBatchId

C15_OpeningIsNext ==
    /\ \A sender \in Addresses :
        LET x == openBatch(Begin(Storage), sender)
        IN  (x.err = OK /\ InBounds(x.s))
            => /\ x.s.currentBatchId = currentBatchId + 1
               /\ OpenedIn(x.ev) = {currentBatchId + 1}
               /\ x.s.batches[currentBatchId + 1] =
                      [isActive |-> TRUE, submissionCount |-> 0,
                       encryptedAggregate |-> FHE_asEuint32(0)]
               /\ \A b \in opened : x.s.batches[b] = batches[b]
    /\ \A sender \in Addresses, b \in BatchIds, sc \in ScoreHandles :
        LET x == SubmitOutcome(sender, b, sc)
        IN  (x.err = OK /\ InBounds(x.s))
            => \/ OpenedIn(x.ev) = {} /\ x.s.currentBatchId = currentBatchId
               \/ /\ OpenedIn(x.ev) = {currentBatchId + 1}
                  /\ x.s.currentBatchId = currentBatchId + 1
                  /\ x.s.batches[currentBatchId + 1] =
                         [isActive |-> TRUE, submissionCount |-> 0,
                          encryptedAggregate |-> FHE_asEuint32(0)]
                  /\ \A b2 \in opened \ {b} : x.s.batches[b2] = batches[b2]

C15_IdsOnlyGrow ==
    /\ currentBatchId' \in {currentBatchId, currentBatchId + 1}
    /\ opened \subseteq opened'
    /\ opened' \ opened \subseteq {currentBatchId + 1}

C15_SequentialIds ==
    /\ currentBatchId = 1
    /\ [](C15_OpenedIsPrefix /\ C15_OpeningIsNext)
    /\ [][C15_IdsOnlyGrow]_vars

\* A second batch opened next to a first one that holds submissions.
C15_Witness ==
    /\ currentBatchId = 2
    /\ opened = {1, 2}
    /\ batches[1].submissionCount > 0
    /\ batches[1].isActive
    /\ batches[2].isActive

\* C16: a batch that was opened and is not active stays as it is in every
\* later state: never active again, its count and aggregate unchanged; and a
\* submitMod against it by a provider, not paused, fails with BatchClosed.
C16_ClosedRefusesSubmissions ==
    \A b \in opened :
        ~batches[b].isActive
        => \A sender \in Addresses, sc \in ScoreHandles :
            (isProvider[sender] /\ ~paused)
            => LET x == SubmitOutcome(sender, b, sc)
               IN  x.err = "BatchClosed" /\ NoEffect(x)

C16_ClosedStaysAsItIs ==
    \A b \in opened :
        ~batches[b].isActive => batches'[b] = batches[b]

C16_ClosedIsTerminal ==
    []C16_ClosedRefusesSubmissions /\ [][C16_ClosedStaysAsItIs]_vars

\* A batch closed by the owner below the capacity, with a later batch opened
\* after it, and a provider whose cooldown has elapsed.
C16_Witness ==
    \E b \in opened :
        /\ ~batches[b].isActive
        /\ batches[b].submissionCount < BatchCapacity
        /\ currentBatchId > b
        /\ batches[currentBatchId].isActive
        /\ \E sender \in Addresses :
            /\ isProvider[sender] /\ ~paused /\ SubmissionCooldownElapsed(sender)
            /\ SubmitOutcome(sender, b, <<1>>).err = "BatchClosed"

\* C17: closeBatch returns only for the owner on an active batch, and then it
\* clears isActive of that batch, emits BatchClosed(id) and nothing else, and
\* writes nothing else; by the owner on a closed or never opened id it fails
\* with BatchClosed and changes nothing.
C17_CloseBatchContract ==
    \A sender \in Addresses, b \in BatchIds :
        LET x == closeBatch(Begin(Storage), sender, b)
        IN  /\ x.err = OK
               => /\ sender = owner
                  /\ batches[b].isActive
                  /\ x.s = [Storage EXCEPT !.batches[b].isActive = FALSE]
                  /\ x.ev = << Event("BatchClosed", NoAddr, b, 0, 0) >>
            /\ (sender = owner /\ batches[b].isActive) => x.err = OK
            /\ (sender = owner /\ ~batches[b].isActive)
               => x.err = "BatchClosed" /\ NoEffect(x)
            /\ sender # owner => x.err = "NotOwner" /\ NoEffect(x)

\* An active batch, a closed one and an id never opened, before the owner.
C17_Witness ==
    \E b1, b2, b3 \in BatchIds :
        /\ batches[b1].isActive
        /\ closeBatch(Begin(Storage), owner, b1).err = OK
        /\ b2 \in opened /\ ~batches[b2].isActive
        /\ closeBatch(Begin(Storage), owner, b2).err = "BatchClosed"
        /\ b3 \notin opened
        /\ closeBatch(Begin(Storage), owner, b3).err = "BatchClosed"

\* C18: a recorded decryption context keeps its batchId, stateHash and
\* requester in every step and is never removed; processed goes from false to
\* true only, and only in a step that is a successful callback for that
\* request; a context is created unprocessed.
C18_ContextWriteOnce ==
    /\ requestCounter' >= requestCounter
    /\ \A r \in 1..(requestCounter - 1) :
        /\ decryptionContexts'[r].batchId = decryptionContexts[r].batchId
        /\ decryptionContexts'[r].stateHash = decryptionContexts[r].stateHash
        /\ decryptionContexts'[r].requester = decryptionContexts[r].requester
        /\ decryptionContexts[r].processed => decryptionContexts'[r].processed
        /\ decryptionContexts'[r].processed # decryptionContexts[r].processed
           => \E proof \in Proofs(r) : \E clear \in Cleartexts(proof) :
                LET x == CallbackOutcome(r, clear, proof)
                IN  x.err = OK /\ Storage' = x.s
    /\ \A r \in requestCounter..(requestCounter' - 1) :
        /\ ~decryptionContexts'[r].processed
        /\ decryptionContexts'[r].stateHash # ZeroHash
        /\ decryptionContexts'[r].requester \in Addresses

C18_ContextImmutable == [][C18_ContextWriteOnce]_vars

\* A processed request whose batch took a submission afterwards.
C18_Witness ==
    \E r \in 1..(requestCounter - 1) :
        /\ decryptionContexts[r].processed
        /\ r \in submittedAfter
        /\ decryptionContexts[r].stateHash #
               _hashCiphertexts(<<FHE_toBytes32(
                   batches[decryptionContexts[r].batchId].encryptedAggregate)>>)

\* The number of scores added under an aggregate handle since its batch was
\* opened with the encrypted zero.
ScoresUnder(h) == Len(h) - 1

\* C19: no DecryptionComplete releases an individual score: the aggregate it
\* releases is never the sum over a single submission, and no two released
\* aggregates of one batch differ by a single submission.
C19_NoIndividualScoreReleased ==
    /\ \A r \in 1..(requestCounter - 1) :
        \A proof \in Proofs(r) : \A clear \in Cleartexts(proof) :
            LET x == CallbackOutcome(r, clear, proof)
            IN  x.err = OK => ScoresUnder(oracleRequests[r][1]) # 1
    /\ \A r1, r2 \in 1..(requestCounter - 1) :
        (/\ decryptionContexts[r1].processed
         /\ decryptionContexts[r2].processed
         /\ decryptionContexts[r1].batchId = decryptionContexts[r2].batchId)
        => ScoresUnder(oracleRequests[r1][1]) # ScoresUnder(oracleRequests[r2][1]) + 1

\* The homomorphic sum of a sequence of encrypted scores: FHE.add folded over
\* them from the encrypted zero a batch is opened with.
RECURSIVE HomSum(_)
HomSum(scores) ==
    IF scores = <<>> THEN FHE_asEuint32(0)
    ELSE FHE_add(HomSum(SubSeq(scores, 1, Len(scores) - 1)), scores[Len(scores)])

\* The sum of the plaintexts under a sequence of encrypted scores.
RECURSIVE PlainSum(_)
PlainSum(scores) ==
    IF scores = <<>> THEN 0 ELSE Decrypt(Head(scores)) + PlainSum(Tail(scores))

\* A sequence with the elements at i and i + 1 exchanged.
Swap(scores, i) == [scores EXCEPT ![i] = scores[i + 1], ![i + 1] = scores[i]]

\* C20: the aggregate of every opened batch is the homomorphic sum, from the
\* encrypted zero, of the scores accepted into it; it decrypts to their sum
\* modulo the width, and to the same value when any two neighbouring
\* submissions are exchanged (hence for every permutation).
C20_AggregateIsSum ==
    \A b \in opened :
        /\ batches[b].encryptedAggregate = HomSum(submitted[b])
        /\ Decrypt(batches[b].encryptedAggregate) = PlainSum(submitted[b]) % EuintMod
        /\ \A i \in 1..(Len(submitted[b]) - 1) :
            Decrypt(HomSum(Swap(submitted[b], i)))
                = Decrypt(batches[b].encryptedAggregate)

\* C20: a step that accepts no submission into a batch leaves its aggregate
\* as it is, whatever it accepts into other batches.
C20_OtherBatchesUnaffected ==
    \A b \in opened :
        submitted'[b] = submitted[b]
        => batches'[b].encryptedAggregate = batches[b].encryptedAggregate

\* C20: the aggregate is the order-independent homomorphic sum of the batch's
\* own submissions, in every reachable state and across every step.
C20_HomomorphicSum ==
    /\ [](C20_AggregateIsSum)
    /\ [][C20_OtherBatchesUnaffected]_vars

\* Two batches hold submissions; one holds different scores whose sum wraps.
C20_Witness ==
    \E b1, b2 \in opened :
        /\ b1 # b2
        /\ submitted[b2] # <<>>
        /\ \E i, j \in DOMAIN submitted[b1] : submitted[b1][i] # submitted[b1][j]
        /\ PlainSum(submitted[b1]) >= EuintMod

\* A call by the owner returns, emits exactly the event e, and made a second
\* time on its own result returns with the same storage and the same event.
IdempotentSignal(x, y, e) ==
    /\ x.err = OK /\ x.ev = <<e>>
    /\ y.err = OK /\ y.ev = <<e>>
    /\ y.s = x.s

\* C21: by the owner, addProvider, removeProvider, pause, unpause and
\* setCooldown always return and emit their event; made twice with the same
\* argument they leave the storage of making them once; adding a provider
\* that already is one, or removing an address that is none, leaves the whole
\* storage unchanged and still emits ProviderAdded / ProviderRemoved.
C21_AdminIdempotent ==
    /\ \A provider \in Addresses :
        /\ LET x == addProvider(Begin(Storage), owner, provider)
               y == addProvider(Begin(x.s), owner, provider)
           IN  /\ IdempotentSignal(x, y, Event("ProviderAdded", provider, 0, 0, 0))
               /\ isProvider[provider] => x.s = Storage
        /\ LET x == removeProvider(Begin(Storage), owner, provider)
               y == removeProvider(Begin(x.s), owner, provider)
           IN  /\ IdempotentSignal(x, y, Event("ProviderRemoved", provider, 0, 0, 0))
               /\ ~isProvider[provider] => x.s = Storage
    /\ LET x == pause(Begin(Storage), owner)
           y == pause(Begin(x.s), owner)
       IN  /\ IdempotentSignal(x, y, Event("Paused", NoAddr, 0, 0, 0))
           /\ paused => x.s = Storage
    /\ LET x == unpause(Begin(Storage), owner)
           y == unpause(Begin(x.s), owner)
       IN  /\ IdempotentSignal(x, y, Event("Unpaused", NoAddr, 0, 0, 0))
           /\ ~paused => x.s = Storage
    /\ \A newCooldown \in CooldownValues :
        LET x == setCooldown(Begin(Storage), owner, newCooldown)
            y == setCooldown(Begin(x.s), owner, newCooldown)
        IN  /\ IdempotentSignal(x, y, Event("CooldownUpdated", NoAddr, newCooldown, 0, 0))
            /\ cooldownSeconds = newCooldown => x.s = Storage

\* Paused, with a changed cooldown, a provider added and one that is none:
\* adding the one again and removing the other return and change nothing.
C21_Witness ==
    \E p1, p2 \in Addresses :
        /\ paused /\ cooldownSeconds # InitialCooldown
        /\ p1 # Deployer /\ isProvider[p1] /\ ~isProvider[p2]
        /\ LET x == addProvider(Begin(Storage), owner, p1)
           IN  x.err = OK /\ x.s = Storage /\ x.ev # <<>>
        /\ LET x == removeProvider(Begin(Storage), owner, p2)
           IN  x.err = OK /\ x.s = Storage /\ x.ev # <<>>

\* The call was refused for its caller and changed nothing.
RefusedNotOwner(x) == x.err = "NotOwner" /\ NoEffect(x)

\* C22: every administrative function called by anyone but the owner, provider
\* or not, fails with NotOwner and changes nothing, for every argument; and
\* the owner is the deployer in every reachable state.
C22_OnlyOwnerAdministers ==
    /\ owner = Deployer
    /\ \A sender \in Addresses \ {owner} :
        /\ \A provider \in Addresses :
            /\ RefusedNotOwner(addProvider(Begin(Storage), sender, provider))
            /\ RefusedNotOwner(removeProvider(Begin(Storage), sender, provider))
        /\ RefusedNotOwner(pause(Begin(Storage), sender))
        /\ RefusedNotOwner(unpause(Begin(Storage), sender))
        /\ \A newCooldown \in CooldownValues :
            RefusedNotOwner(setCooldown(Begin(Storage), sender, newCooldown))
        /\ RefusedNotOwner(openBatch(Begin(Storage), sender))
        /\ \A b \in BatchIds :
            RefusedNotOwner(closeBatch(Begin(Storage), sender, b))

\* C22: no step changes the owner.
C22_OwnerKept == owner' = owner

\* C22: administration is the owner's alone, and the owner never changes.
C22_OwnerOnly == []C22_OnlyOwnerAdministers /\ [][C22_OwnerKept]_vars

\* A provider that is not the owner, the owner no longer a provider, the
\* system paused and a batch active: the provider's unpause and closeBatch are
\* refused where the owner's go through.
C22_Witness ==
    \E sender \in Addresses \ {owner} :
        /\ isProvider[sender] /\ ~isProvider[owner] /\ paused
        /\ batches[currentBatchId].isActive
        /\ unpause(Begin(Storage), sender).err = "NotOwner"
        /\ closeBatch(Begin(Storage), sender, currentBatchId).err = "NotOwner"
        /\ unpause(Begin(Storage), owner).err = OK
        /\ closeBatch(Begin(Storage), owner, currentBatchId).err = OK

\* The caller passes the four preconditions of submitMod on the batch.
MaySubmit(sender, batchId) ==
    /\ isProvider[sender] /\ ~paused
    /\ batches[batchId].isActive
    /\ SubmissionCooldownElapsed(sender)

\* C23: submitMod with the null handle by a caller that passes the four
\* preconditions fails with Uninitialized and leaves the storage (the batch's
\* aggregate and count, the caller's lastSubmissionAt) and the log as they
\* were, where an encrypted score is accepted.
C23_NullHandleRejected ==
    \A sender \in Addresses, b \in BatchIds :
        MaySubmit(sender, b)
        => LET x == SubmitOutcome(sender, b, Uninitialized)
           IN  /\ x.err = "Uninitialized"
               /\ NoEffect(x)
               /\ Committed(x).batches[b] = batches[b]
               /\ Committed(x).lastSubmissionAt[sender] = lastSubmissionAt[sender]

\* A caller that may submit into a batch that already holds submissions, at a
\* time other than its last submission: the null handle is refused where a
\* score would be counted.
C23_Witness ==
    \E sender \in Addresses, b \in BatchIds :
        /\ MaySubmit(sender, b)
        /\ batches[b].submissionCount > 0
        /\ lastSubmissionAt[sender] # now
        /\ SubmitOutcome(sender, b, Uninitialized).err = "Uninitialized"
        /\ LET y == SubmitOutcome(sender, b, <<1>>)
           IN  /\ y.err = OK
               /\ y.s.batches[b].submissionCount = batches[b].submissionCount + 1

\* The recorded requests.
Recorded == 1..(requestCounter - 1)

\* The proof the oracle signs for a request: its handles and their plaintext.
SignedProof(requestId) ==
    [signed |-> TRUE, cts |-> oracleRequests[requestId],
     cleartexts |-> Decrypt(oracleRequests[requestId][1])]

\* The callback for a request with the oracle's proof and cleartexts.
SignedCallback(requestId) ==
    CallbackOutcome(requestId, SignedProof(requestId).cleartexts,
                    SignedProof(requestId))

\* The callback returned, marked the request and nothing else, and emitted
\* DecryptionComplete with the request's batch and the cleartexts.
Completes(x, requestId) ==
    /\ x.err = OK
    /\ x.s = [Storage EXCEPT !.decryptionContexts[requestId].processed = TRUE]
    /\ x.ev = << Event("DecryptionComplete", NoAddr, requestId,
                       decryptionContexts[requestId].batchId,
                       SignedProof(requestId).cleartexts) >>

\* C24: for every recorded, unprocessed request whose batch took no
\* submission since, the callback with the oracle's proof succeeds, whoever
\* calls it, whether or not the system is paused, the batch is still active
\* and the requester is still a provider.
C24_CallbackUnguarded ==
    \A r \in Recorded :
        (~decryptionContexts[r].processed /\ r \notin submittedAfter)
        => Completes(SignedCallback(r), r)

\* A pending request while the system is paused, its batch closed and its
\* requester no longer a provider: the callback goes through.
C24_Witness ==
    \E r \in Recorded :
        /\ ~decryptionContexts[r].processed /\ r \notin submittedAfter
        /\ paused
        /\ ~batches[decryptionContexts[r].batchId].isActive
        /\ ~isProvider[decryptionContexts[r].requester]
        /\ SignedCallback(r).err = OK

\* The digest of the handle a batch holds now.
CurrentDigest(batchId) ==
    _hashCiphertexts(<<FHE_toBytes32(batches[batchId].encryptedAggregate)>>)

\* Every callback for the request fails with InvalidState and changes nothing.
AlwaysInvalidState(r) ==
    \A proof \in Proofs(r) : \A clear \in Cleartexts(proof) :
        LET x == CallbackOutcome(r, clear, proof)
        IN  x.err = "InvalidState" /\ NoEffect(x)

\* C25 as stated: every request whose batch accepted a submission after it
\* was issued is unprocessed and every callback for it fails with InvalidState.
C25_StaleIsUnprocessed ==
    \A r \in submittedAfter :
        ~decryptionContexts[r].processed /\ AlwaysInvalidState(r)

\* C25: for a request whose batch accepted a submission after it was issued,
\* the batch's digest differs from the committed one, and while the request
\* is unprocessed every callback for it fails with InvalidState.
C25_StaleStaysStale ==
    \A r \in submittedAfter :
        /\ CurrentDigest(decryptionContexts[r].batchId) # decryptionContexts[r].stateHash
        /\ ~decryptionContexts[r].processed => AlwaysInvalidState(r)

\* C25: such a request stays such a request in every step, and its processed
\* flag stays what it was when the submission was accepted.
C25_NoWayBack ==
    \A r \in submittedAfter :
        /\ r \in submittedAfter'
        /\ decryptionContexts'[r].processed = decryptionContexts[r].processed

\* C25: a request pending when its batch accepts a submission never completes.
C25_NeverCompletes == []C25_StaleStaysStale /\ [][C25_NoWayBack]_vars

\* A pending request whose batch accepted a submission and was closed later,
\* the system paused since: the oracle's callback is refused.
C25_Witness ==
    \E r \in submittedAfter :
        /\ ~decryptionContexts[r].processed
        /\ ~batches[decryptionContexts[r].batchId].isActive
        /\ paused
        /\ SignedCallback(r).err = "InvalidState"

\* The proof is the oracle's signature of these cleartexts for the request.
Verifies(requestId, cleartexts, proof) ==
    /\ proof.signed
    /\ proof.cts = oracleRequests[requestId]
    /\ proof.cleartexts = cleartexts

\* C26: for a recorded request, a callback on a processed request reports
\* ReplayAttempt and one on a stale digest InvalidState, whatever the proof;
\* on a pending request with the digest unchanged, a proof that does not
\* verify aborts the callback with no effect (processed stays false, nothing
\* is emitted), and the callback with the oracle's proof made after it succeeds.
C26_InvalidProofAborts ==
    \A r \in Recorded :
        \A proof \in Proofs(r) : \A clear \in Cleartexts(proof) :
            LET x == CallbackOutcome(r, clear, proof)
                stale == CurrentDigest(decryptionContexts[r].batchId)
                             # decryptionContexts[r].stateHash
            IN  /\ decryptionContexts[r].processed => x.err = "ReplayAttempt"
                /\ (~decryptionContexts[r].processed /\ stale)
                   => x.err = "InvalidState"
                /\ (/\ ~decryptionContexts[r].processed
                    /\ ~stale
                    /\ ~Verifies(r, clear, proof))
                   => /\ x.err = "InvalidSignatures"
                      /\ NoEffect(x)
                      /\ ~Committed(x).decryptionContexts[r].processed
                      /\ LET y == onBatchDecryptionComplete(
                                      Begin(Committed(x)), r,
                                      SignedProof(r).cleartexts, SignedProof(r))
                         IN  /\ y.err = OK
                             /\ y.s.decryptionContexts[r].processed

\* A pending request with the digest unchanged: a forged proof and a signed
\* proof with other cleartexts are refused, the oracle's proof is accepted.
C26_Witness ==
    \E r \in Recorded :
        /\ ~decryptionContexts[r].processed
        /\ CurrentDigest(decryptionContexts[r].batchId) = decryptionContexts[r].stateHash
        /\ \E proof \in Proofs(r) :
            /\ ~proof.signed
            /\ CallbackOutcome(r, proof.cleartexts, proof).err = "InvalidSignatures"
        /\ \E clear \in Cleartexts(SignedProof(r)) :
            /\ clear # SignedProof(r).cleartexts
            /\ CallbackOutcome(r, clear, SignedProof(r)).err = "InvalidSignatures"
        /\ SignedCallback(r).err = OK

\* Every proof a caller may present for a request id, the oracle's signature
\* of whatever it holds under that id included.
AnyProofs(requestId) ==
    (UNION {Proofs(q) : q \in RequestIds})
    \cup {[signed |-> TRUE, cts |-> oracleRequests[requestId], cleartexts |-> c] :
            c \in 0..(EuintMod - 1)}

\* C27: a callback for a request id that no requestBatchDecryption recorded
\* fails for every cleartext and proof, at the digest check, and leaves the
\* storage and the log as they were.
C27_UnknownRequestRejected ==
    \A r \in RequestIds \ Recorded :
        /\ decryptionContexts[r] = DefaultContext
        /\ \A proof \in AnyProofs(r) : \A clear \in 0..(EuintMod - 1) :
            LET x == CallbackOutcome(r, clear, proof)
            IN  /\ x.err = "InvalidState"
                /\ NoEffect(x)

\* A request is recorded and its callback would succeed; the callback for an
\* id never recorded is refused, also with a signature for that id.
C27_Witness ==
    \E r \in RequestIds \ Recorded, q \in Recorded :
        /\ SignedCallback(q).err = OK
        /\ \E proof \in AnyProofs(r) :
            /\ Verifies(r, proof.cleartexts, proof)
            /\ CallbackOutcome(r, proof.cleartexts, proof).err = "InvalidState"

\* C28: a requestBatchDecryption that returns records, under the oracle's
\* fresh id, a context with the given batch, the digest of the batch's
\* aggregate handle at that moment, processed false and the caller as the
\* requester, hands that handle to the oracle, sets the caller's
\* lastDecryptionRequestAt to now, emits DecryptionRequested alone, and
\* leaves everything else as it was: every batch, currentBatchId, the
\* providers, the submission timestamps, the other contexts.
C28_RequestFrame ==
    requestCounter \in RequestIds
    => \A sender \in Addresses, b \in BatchIds :
        LET x == RequestOutcome(sender, b)
            id == requestCounter
        IN  x.err = OK
            => /\ x.s = [Storage EXCEPT
                            !.decryptionContexts[id] =
                                [batchId |-> b, stateHash |-> CurrentDigest(b),
                                 processed |-> FALSE, requester |-> sender],
                            !.lastDecryptionRequestAt[sender] = now,
                            !.oracleRequests[id] =
                                <<FHE_toBytes32(batches[b].encryptedAggregate)>>,
                            !.requestCounter = id + 1]
               /\ x.ev = << Event("DecryptionRequested", NoAddr, id, b, 0) >>
               /\ x.s.batches = batches
               /\ x.s.currentBatchId = currentBatchId
               /\ x.s.isProvider = isProvider
               /\ x.s.lastSubmissionAt = lastSubmissionAt
               /\ \A r \in RequestIds \ {id} :
                    x.s.decryptionContexts[r] = decryptionContexts[r]

\* A provider other than the owner that has just submitted asks for the
\* decryption of a batch holding submissions, while another batch is active.
C28_Witness ==
    \E sender \in Addresses \ {owner}, b, b2 \in BatchIds :
        /\ requestCounter \in RequestIds
        /\ b # b2 /\ batches[b2].isActive
        /\ batches[b].submissionCount > 0
        /\ lastSubmissionAt[sender] = now /\ now > 0
        /\ RequestOutcome(sender, b).err = OK

\* The call was stopped by the rate limit.
StoppedByCooldown(x) == x.err \in {"RateLimited", "Panic"}

\* C29: a submitMod that returns writes, of all timestamps, the caller's
\* lastSubmissionAt only, and a requestBatchDecryption that returns the
\* caller's lastDecryptionRequestAt only; a request made right after a
\* submission of the same caller is stopped by the rate limit exactly when it
\* would have been without the submission, and likewise a submission right
\* after a request.
C29_KindsIndependent ==
    \A sender \in Addresses, b \in BatchIds :
        /\ \A sc \in ScoreHandles :
            LET x == SubmitOutcome(sender, b, sc)
            IN  x.err = OK
                => /\ x.s.lastSubmissionAt = [lastSubmissionAt EXCEPT ![sender] = now]
                   /\ x.s.lastDecryptionRequestAt = lastDecryptionRequestAt
                   /\ \A b2 \in BatchIds :
                        LET y == requestBatchDecryption(Begin(x.s), sender, now, b2)
                            z == RequestOutcome(sender, b2)
                        IN  StoppedByCooldown(y) <=> StoppedByCooldown(z)
        /\ LET x == RequestOutcome(sender, b)
           IN  x.err = OK
               => /\ x.s.lastDecryptionRequestAt =
                        [lastDecryptionRequestAt EXCEPT ![sender] = now]
                  /\ x.s.lastSubmissionAt = lastSubmissionAt
                  /\ \A b2 \in BatchIds, sc \in ScoreHandles :
                        LET y == submitMod(Begin(x.s), sender, now, b2, sc)
                            z == SubmitOutcome(sender, b2, sc)
                        IN  StoppedByCooldown(y) <=> StoppedByCooldown(z)

\* C29: a step changes at most one timestamp: one kind, of one actor.
C29_OneTimestampPerStep ==
    \A a \in Addresses :
        /\ lastSubmissionAt'[a] # lastSubmissionAt[a]
           => /\ lastDecryptionRequestAt' = lastDecryptionRequestAt
              /\ \A a2 \in Addresses \ {a} : lastSubmissionAt'[a2] = lastSubmissionAt[a2]
        /\ lastDecryptionRequestAt'[a] # lastDecryptionRequestAt[a]
           => /\ lastSubmissionAt' = lastSubmissionAt
              /\ \A a2 \in Addresses \ {a} :
                    lastDecryptionRequestAt'[a2] = lastDecryptionRequestAt[a2]

\* C29: the submission and the decryption-request cooldowns are kept apart,
\* per kind and per actor.
C29_IndependentCooldowns ==
    []C29_KindsIndependent /\ [][C29_OneTimestampPerStep]_vars

\* A provider that has just submitted, inside its submission cooldown, may
\* request a decryption at once, while another actor's timestamps are older.
C29_Witness ==
    \E a, a2 \in Addresses, b \in BatchIds :
        /\ a # a2
        /\ lastSubmissionAt[a] = now /\ now > 0
        /\ lastDecryptionRequestAt[a] < now
        /\ lastSubmissionAt[a2] < now
        /\ SubmitOutcome(a, b, <<1>>).err = "RateLimited"
        /\ RequestOutcome(a, b).err = OK

\* Two different recorded requests against one batch that took no submission
\* since either was issued.
Twins(r1, r2) ==
    /\ r1 \in Recorded /\ r2 \in Recorded /\ r1 # r2
    /\ decryptionContexts[r1].batchId = decryptionContexts[r2].batchId
    /\ r1 \notin submittedAfter /\ r2 \notin submittedAfter

\* C30: of two requests against one batch with no submission since, each one
\* still unprocessed completes with the oracle's proof whether or not the
\* other has been processed, marks itself alone, and is then a replay, while
\* the other, if unprocessed, still completes after it.
C30_TwinsComplete ==
    \A r1, r2 \in RequestIds :
        (Twins(r1, r2) /\ ~decryptionContexts[r1].processed)
        => LET x == SignedCallback(r1)
           IN  /\ decryptionContexts[r1].stateHash = decryptionContexts[r2].stateHash
               /\ Completes(x, r1)
               /\ x.s.decryptionContexts[r2] = decryptionContexts[r2]
               /\ onBatchDecryptionComplete(Begin(x.s), r1,
                      SignedProof(r1).cleartexts, SignedProof(r1)).err = "ReplayAttempt"
               /\ ~decryptionContexts[r2].processed
                  => LET y == onBatchDecryptionComplete(Begin(x.s), r2,
                                  SignedProof(r2).cleartexts, SignedProof(r2))
                     IN  /\ y.err = OK
                         /\ y.s.decryptionContexts[r1].processed
                         /\ y.s.decryptionContexts[r2].processed

\* C30: a step that records a request gives it an id no request has, and the
\* digest of every earlier request against the same batch that took no
\* submission since.
C30_NewRequestIsTwin ==
    requestCounter' # requestCounter
    => /\ requestCounter' = requestCounter + 1
       /\ decryptionContexts[requestCounter] = DefaultContext
       /\ \A r \in Recorded :
            /\ decryptionContexts'[r] = decryptionContexts[r]
            /\ (/\ decryptionContexts[r].batchId
                       = decryptionContexts'[requestCounter].batchId
                /\ r \notin submittedAfter)
               => decryptionContexts'[requestCounter].stateHash
                      = decryptionContexts[r].stateHash

\* C30: two requests against one batch with no submission in between have
\* different ids and the same digest, and their callbacks do not depend on
\* each other.
C30_IndependentRequests == []C30_TwinsComplete /\ [][C30_NewRequestIsTwin]_vars

\* Two requests of different providers against one batch holding a
\* submission: the later one is processed, the earlier one still completes.
C30_Witness ==
    \E r1, r2 \in RequestIds :
        /\ Twins(r1, r2) /\ r1 < r2
        /\ decryptionContexts[r1].requester # decryptionContexts[r2].requester
        /\ batches[decryptionContexts[r1].batchId].submissionCount > 0
        /\ decryptionContexts[r2].processed
        /\ ~decryptionContexts[r1].processed
        /\ SignedCallback(r1).err = OK

\* The cooldown check of a call by the caller now, on the named mapping.
CooldownCheck(caller, lastAction) ==
    rateLimited(Begin(Storage), caller, lastAction, now)

\* C31: for every cooldown the owner has set and every stored timestamp, the
\* cooldown check of submitMod and of requestBatchDecryption passes or ends
\* with RateLimited, the sum lastAction + cooldownSeconds stays within the
\* integer width, and neither call fails with an arithmetic panic.
C31_CooldownCheckTotal ==
    \A caller \in Addresses :
        /\ CooldownCheck(caller, "lastSubmissionAt").err \in {OK, "RateLimited"}
        /\ CooldownCheck(caller, "lastDecryptionRequestAt").err \in {OK, "RateLimited"}
        /\ lastSubmissionAt[caller] + cooldownSeconds <= MaxUint
        /\ lastDecryptionRequestAt[caller] + cooldownSeconds <= MaxUint
        /\ \A b \in BatchIds :
            /\ \A sc \in ScoreHandles : SubmitOutcome(caller, b, sc).err # "Panic"
            /\ RequestOutcome(caller, b).err # "Panic"

====
